---- MODULE Spec2Model ----
(***************************************************************************)
(* TagIt: a Streamlit script (app.py) that dispatches an uploaded file by  *)
(* its extension to a format adapter (metadata_utils.py,                   *)
(* office_metadata.py), shows the extracted metadata, and lets the user    *)
(* write edited values into a copy of the file.                            *)
(*                                                                         *)
(* Two specifications:                                                     *)
(*   Spec         the script and its session state over uploads, form      *)
(*                submits and the re-run that st.rerun() triggers;         *)
(*   AdapterSpec  the adapter functions called directly, on every input    *)
(*                of the bounded input sets.                               *)
(***************************************************************************)
EXTENDS Naturals, Sequences, FiniteSets, TLC

\* ------------------------------------------------------------------ bounds

\* Size of the pool of names tempfile.NamedTemporaryFile may hand out.
MaxTmp == 2
\* The clock takes the values 0..MaxTime.
MaxTime == 1
\* Largest number of keys in a change set handed directly to an adapter.
MaxChanges == 2
\* Largest number of form inputs the user retypes before a submit.
MaxEdits == 1
\* Largest number of files on the disk.
MaxFiles == 1
\* Largest number of files on the disk of a session of repeated applies.
MaxArtifacts == 2

\* ------------------------------------------------------------------ strings

\* File names and paths are sequences of one-character strings, so that
\* str.lower() and str.endswith() are computed and not assumed.
UpperOf == [c \in {"a", "b", "d", "g", "j", "p", "x"} |->
              CASE c = "a" -> "A" [] c = "b" -> "B" [] c = "d" -> "D"
                [] c = "g" -> "G" [] c = "j" -> "J" [] c = "p" -> "P"
                [] c = "x" -> "X"]

LowerChar(c) ==
  IF \E l \in DOMAIN UpperOf : UpperOf[l] = c
    THEN CHOOSE l \in DOMAIN UpperOf : UpperOf[l] = c
    ELSE c

\* str.lower()
Lower(s) == [i \in 1..Len(s) |-> LowerChar(s[i])]

\* str.endswith(suffix)
EndsWith(s, suffix) ==
  /\ Len(suffix) <= Len(s)
  /\ SubSeq(s, Len(s) - Len(suffix) + 1, Len(s)) = suffix

\* str.endswith((suffix, ...))
EndsWithAny(s, suffixes) == \E suf \in suffixes : EndsWith(s, suf)

\* str.strip() on the value alphabet: " " is the whitespace-only string.
Strip(v) == IF v = " " THEN "" ELSE v

\* Python's None where a str is expected (dict.get on a missing key).
NoneVal == "<None>"

\* Python truthiness of a str or None.
Truthy(v) == v \notin {"", NoneVal}

Ext_jpg  == <<".", "j", "p", "g">>
Ext_jpeg == <<".", "j", "p", "e", "g">>
Ext_png  == <<".", "p", "n", "g">>
Ext_pdf  == <<".", "p", "d", "f">>
Ext_docx == <<".", "d", "o", "c", "x">>
Ext_pptx == <<".", "p", "p", "t", "x">>
Ext_mp4  == <<".", "m", "p", "4">>
Ext_mov  == <<".", "m", "o", "v">>
Ext_avi  == <<".", "a", "v", "i">>
Ext_txt  == <<".", "t", "x", "t">>

\* The dispatch on the file name as typed, without str.lower().
FileTypeNoLower(name) ==
  LET file_name == name IN
  IF EndsWithAny(file_name, {Ext_jpg, Ext_jpeg, Ext_png}) THEN "image"
  ELSE IF EndsWith(file_name, Ext_pdf) THEN "pdf"
  ELSE IF EndsWith(file_name, Ext_docx) THEN "docx"
  ELSE IF EndsWith(file_name, Ext_pptx) THEN "pptx"
  ELSE IF EndsWithAny(file_name, {Ext_mp4, Ext_mov, Ext_avi}) THEN "video"
  ELSE "unsupported"

\* app.py 45-59: the script's dispatch on the lower-cased file name.
FileType(name) ==
  LET file_name == Lower(name) IN
  IF EndsWithAny(file_name, {Ext_jpg, Ext_jpeg, Ext_png}) THEN "image"
  ELSE IF EndsWith(file_name, Ext_pdf) THEN "pdf"
  ELSE IF EndsWith(file_name, Ext_docx) THEN "docx"
  ELSE IF EndsWith(file_name, Ext_pptx) THEN "pptx"
  ELSE IF EndsWithAny(file_name, {Ext_mp4, Ext_mov, Ext_avi}) THEN "video"
  ELSE "unsupported"

\* metadata_utils.py 13-21: dispatch on the declared MIME type, on the MIME
\* types the uploads declare (startswith("image/"), "application/pdf",
\* startswith("video/")).  Imported by app.py and never called.
get_file_type(mime) ==
  IF mime \in {"image/jpeg", "image/png"} THEN "image"
  ELSE IF mime = "application/pdf" THEN "pdf"
  ELSE IF mime \in {"video/mp4"} THEN "video"
  ELSE "unsupported"

\* ------------------------------------------------------------------ values

\* The text values a change set or a form input carries: the empty string, a
\* whitespace-only string, an ordinary text.  The files' own values are "T".
Val == {"", " ", "X"}

\* A dict with str keys and values in Val: a function on the keys present.
EmptyDict == [k \in {} |-> ""]
DictGet(d, k, default) == IF k \in DOMAIN d THEN d[k] ELSE default
DictMerge(d, e) == [x \in DOMAIN d \cup DOMAIN e |-> IF x \in DOMAIN e THEN e[x] ELSE d[x]]

\* The change sets of at most MaxChanges keys over the given keys.
ChangeSets(keys) ==
  UNION {[ks -> Val] : ks \in {s \in SUBSET keys : Cardinality(s) <= MaxChanges}}

\* ------------------------------------------------------------------ files on disk

\* The file system: a function from the paths that exist to their contents.
FsWrite(disk, p, c) == [q \in DOMAIN disk \cup {p} |-> IF q = p THEN c ELSE disk[q]]
FsRemove(disk, p) == [q \in DOMAIN disk \ {p} |-> disk[q]]
FsExists(disk, p) == p \in DOMAIN disk

\* What a writer leaves behind when it fails part-way.
PartialContent == [fmt |-> "partial", valid |-> FALSE]

Slash == "/"
\* os.path.basename
RECURSIVE Basename(_)
Basename(p) ==
  IF \E i \in 1..Len(p) : p[i] = Slash
    THEN Basename(SubSeq(p, (CHOOSE i \in 1..Len(p) : p[i] = Slash /\ \A j \in 1..(i-1) : p[j] # Slash) + 1, Len(p)))
    ELSE p

\* os.path.splitext(name)[1]: from the last dot of the base name, if that dot
\* is not its first character.
Splitext1(name) ==
  LET b == Basename(name)
      dots == {i \in 2..Len(b) : b[i] = "."}
  IN IF dots = {} THEN <<>>
     ELSE SubSeq(b, CHOOSE i \in dots : \A j \in dots : j <= i, Len(b))

Digit == <<"1", "2", "3", "4", "5", "6", "7", "8", "9">>
TmpIds == 1..MaxTmp
\* The name tempfile.NamedTemporaryFile(delete=False, suffix=...) creates.
TmpPath(i, suffix) == <<Slash, "t", "m", "p", Slash, "t", Digit[i]>> \o suffix
\* The ids whose name with this suffix does not exist on this disk.
FreeTmp(disk, suffix) == {i \in TmpIds : ~FsExists(disk, TmpPath(i, suffix))}

ModifiedPrefix == <<"m", "o", "d", "i", "f", "i", "e", "d", "_">>

\* ------------------------------------------------------------------ DOCX / PPTX

\* The text attributes of a core-properties object the model carries; any
\* other key of a change set is one for which hasattr(props, key) is False.
CoreTextKeys == {"title", "author", "subject", "keywords"}

OfficeContent(fmt, props, modified) ==
  [fmt |-> fmt, valid |-> TRUE, props |-> props, modified |-> modified]

\* Document(path) / Presentation(path) opens the file.
Opens(disk, path, fmt) ==
  /\ FsExists(disk, path)
  /\ disk[path].fmt = fmt
  /\ disk[path].valid

ErrorRecord(msg) == [Error |-> msg]
IsError(metadata) == "Error" \in DOMAIN metadata

\* The result of an update_*_metadata of office_metadata.py: a str (the
\* output path) or a dict with an 'Error' key.
StrResult(path) == [py |-> "str", path |-> path]
DictResult(msg) == [py |-> "dict", Error |-> msg]

ExtractOffice(disk, file_path, fmt, stats, msg) ==
  IF Opens(disk, file_path, fmt)
    THEN [CoreProperties |->
            [k \in CoreTextKeys \cup {"modified"} |->
               IF k = "modified" THEN disk[file_path].modified
               ELSE disk[file_path].props[k]],
          Stats |-> stats]
    ELSE ErrorRecord(msg)

\* office_metadata.py 7-37
extract_docx_metadata(disk, file_path) ==
  ExtractOffice(disk, file_path, "docx", "DocumentStats", "DOCX Metadata Error")

\* office_metadata.py 78-108
extract_pptx_metadata(disk, file_path) ==
  ExtractOffice(disk, file_path, "pptx", "PresentationStats", "PPTX Metadata Error")

\* I/O faults of the environment during an office update.
OfficeFaults == {"none", "copy", "save"}

\* The for loop of lines 54-56 / 125-127: setattr for the keys that are
\* attributes of the core-properties object.
ApplyCoreChanges(props, changes) ==
  [k \in DOMAIN props |-> IF k \in DOMAIN changes THEN changes[k] ELSE props[k]]

\* Lines 65-68 / 136-139: every changed key reads back as requested;
\* getattr(..., key, '') is '' for a key that is no attribute.
VerifyCore(props, changes) ==
  \A k \in DOMAIN changes : DictGet(props, k, "") = changes[k]

\* An except branch that leaves the output copy where it is.
OfficeCleanupNone(disk, output_path) == disk

\* Lines 72-76 / 143-147: the except branch removes the output copy.
OfficeCleanup(disk, output_path) ==
  IF FsExists(disk, output_path) THEN FsRemove(disk, output_path) ELSE disk

\* Line 43 / 114
OfficeOutputPath(input_path) == ModifiedPrefix \o Basename(input_path)

\* A save that keeps the modified the document came with.
StampKeep(old, now) == old

\* Line 59 / 130: props.modified = datetime.now()
Stamp(old, now) == now

UpdateOffice(disk, input_path, changes, now, fault, fmt, msg) ==
  LET output_path == OfficeOutputPath(input_path)
      Fail(d) == [result |-> DictResult(msg), disk |-> OfficeCleanup(d, output_path)]
  IN
  IF ~FsExists(disk, input_path) THEN Fail(disk)
  ELSE IF fault = "copy" THEN Fail(FsWrite(disk, output_path, PartialContent))
  ELSE
    LET copied == FsWrite(disk, output_path, disk[input_path]) IN
    IF ~Opens(copied, output_path, fmt) THEN Fail(copied)
    ELSE IF fault = "save" THEN Fail(FsWrite(copied, output_path, PartialContent))
    ELSE
      LET doc == copied[output_path]
          saved == FsWrite(copied, output_path,
                     OfficeContent(fmt, ApplyCoreChanges(doc.props, changes),
                                   Stamp(doc.modified, now)))
      IN IF ~VerifyCore(saved[output_path].props, changes) THEN Fail(saved)
         ELSE [result |-> StrResult(output_path), disk |-> saved]

\* office_metadata.py 39-76
update_docx_metadata(disk, input_path, changes, now, fault) ==
  UpdateOffice(disk, input_path, changes, now, fault, "docx", "DOCX Update Error")

\* office_metadata.py 110-147
update_pptx_metadata(disk, input_path, changes, now, fault) ==
  UpdateOffice(disk, input_path, changes, now, fault, "pptx", "PPTX Update Error")

\* ------------------------------------------------------------------ uploads

\* A Streamlit UploadedFile: a file-like object with a name, a declared MIME
\* type and the uploaded bytes.
UploadedFile(name, mime, content) ==
  [py |-> "UploadedFile", name |-> name, type |-> mime, content |-> content]

\* A str holding a path, where a function expects a file-like object.
PathArg(path) == [py |-> "str", path |-> path]

\* ------------------------------------------------------------------ PDF

PdfKeys == {"Title", "Author"}

PdfContent(info) == [fmt |-> "pdf", valid |-> TRUE, info |-> info]

\* pdfrw.PdfReader parses the bytes.
PdfParses(content) == content.fmt = "pdf" /\ content.valid

\* metadata_utils.py 90-110.  uploaded_file.seek(0) is the first statement
\* of the try block: a str has no seek, and the AttributeError is caught like
\* any parse error.
extract_pdf_metadata(uploaded_file, now) ==
  IF uploaded_file.py = "str"
    THEN ErrorRecord("Failed to read PDF metadata: 'str' object has no attribute 'seek'")
  ELSE IF ~PdfParses(uploaded_file.content)
    THEN ErrorRecord("Failed to read PDF metadata")
  ELSE DictMerge(uploaded_file.content.info,
                 [PDFVersion |-> "1.4", PageCount |-> 1, ExtractedAt |-> now])

\* Lines 152-154: only the values that are non-empty after strip() are set.
SetInfo(info, changes) ==
  DictMerge(info, [k \in {x \in DOMAIN changes : Truthy(changes[x]) /\ Truthy(Strip(changes[x]))}
                     |-> changes[k]])

\* A verification that accepts any output.
PdfVerifiedAlways(info, changes) == TRUE

\* Lines 159-161: every key of the change set is in the re-read Info.
PdfVerified(info, changes) == \A k \in DOMAIN changes : k \in DOMAIN info

\* I/O faults of the environment during a PDF update: writing the upload
\* into the temporary file, PdfWriter.write, or reading the output back.
PdfFaults == {"none", "tmpwrite", "write", "reread"}

PdfOutputPath(uploaded_file) == ModifiedPrefix \o uploaded_file.name

\* metadata_utils.py 139-170.  tmp is the id of the temporary name.  The
\* result is raised (the Exception of line 170) or the output path.
update_pdf_metadata(disk, uploaded_file, changes, tmp, fault) ==
  LET tmp_path == TmpPath(tmp, Ext_pdf)
      output_path == PdfOutputPath(uploaded_file)
      \* the except branch when tmp_path is bound
      Fail(d) == [raised |-> TRUE, path |-> <<>>,
                  disk |-> IF FsExists(d, tmp_path) THEN FsRemove(d, tmp_path) ELSE d]
  IN
  IF fault = "tmpwrite"
    \* tmp_file.write raises inside the with block: tmp_path is not bound
    THEN [raised |-> TRUE, path |-> <<>>, disk |-> FsWrite(disk, tmp_path, PartialContent)]
  ELSE
    LET staged == FsWrite(disk, tmp_path, uploaded_file.content) IN
    IF ~PdfParses(staged[tmp_path]) THEN Fail(staged)
    ELSE IF fault = "write" THEN Fail(FsWrite(staged, output_path, PartialContent))
    ELSE
      LET written == FsWrite(staged, output_path,
                             PdfContent(SetInfo(staged[tmp_path].info, changes)))
      IN IF fault = "reread" THEN Fail(written)
         ELSE IF ~PdfVerified(written[output_path].info, changes) THEN Fail(written)
         ELSE [raised |-> FALSE, path |-> output_path,
               disk |-> FsRemove(written, tmp_path)]

\* ------------------------------------------------------------------ video

\* A container: the tracks the probe reports, each a track type and its
\* fields (a field whose value is "" is reported empty).
VideoContent(tracks) == [fmt |-> "video", valid |-> TRUE, tracks |-> tracks]

\* Lines 187-189: the non-empty fields of one track.
TrackInfo(track) ==
  [k \in {x \in DOMAIN track.data : Truthy(track.data[x])} |-> track.data[k]]

\* Lines 184-190: metadata[track.track_type] = track_info, track by track.
RECURSIVE TracksToMetadata(_, _)
TracksToMetadata(tracks, metadata) ==
  IF tracks = <<>> THEN metadata
  ELSE TracksToMetadata(Tail(tracks),
         [t \in DOMAIN metadata \cup {Head(tracks).track_type} |->
            IF t = Head(tracks).track_type THEN TrackInfo(Head(tracks)) ELSE metadata[t]])

\* What MediaInfo.parse reports: the tracks of a container, a lone General
\* track for any other file.
ProbeTracks(content) ==
  IF content.fmt = "video" /\ content.valid THEN content.tracks
  ELSE <<[track_type |-> "General", data |-> [FileSize |-> "1", Format |-> ""]]>>

\* Faults of the environment during a probe: writing the upload into the
\* temporary file, or MediaInfo.parse raising (no libmediainfo, I/O error).
VideoFaults == {"none", "tmpwrite", "parse"}

\* metadata_utils.py 173-194
extract_video_metadata(disk, uploaded_file, tmp, fault) ==
  LET tmp_path == TmpPath(tmp, Splitext1(uploaded_file.name)) IN
  IF fault = "tmpwrite"
    THEN [metadata |-> ErrorRecord("Failed to extract video metadata"),
          disk |-> FsWrite(disk, tmp_path, PartialContent)]
  ELSE IF fault = "parse"
    \* MediaInfo.parse raises before os.unlink(tmp_path)
    THEN [metadata |-> ErrorRecord("Failed to extract video metadata"),
          disk |-> FsWrite(disk, tmp_path, uploaded_file.content)]
  ELSE [metadata |-> TracksToMetadata(ProbeTracks(uploaded_file.content), EmptyDict),
        disk |-> disk]

\* ------------------------------------------------------------------ images

\* Tags of the primary image sub-structure (0th IFD) and of the capture-time
\* sub-structure (Exif IFD) that the model carries.
ZerothTags == {"Make", "Model", "Software", "DateTime", "Artist", "Copyright",
               "ImageDescription"}
ExifTags == {"DateTimeOriginal"}
GpsKeys == {"GPSLatitude", "GPSLatitudeRef", "GPSLongitude", "GPSLongitudeRef",
            "GPSTimeStamp"}

\* decodable: Image.open succeeds.  jpeg: piexif.load / piexif.insert accept
\* the file (JPEG, not PNG).  zeroth, exif, gps: the tag dicts present.
ImageContent(decodable, jpeg, zeroth, exif, gps) ==
  [fmt |-> "image", valid |-> decodable, jpeg |-> jpeg,
   zeroth |-> zeroth, exif |-> exif, gps |-> gps]

Raised(msg) == [raised |-> TRUE, msg |-> msg]
Returned(value) == [raised |-> FALSE, value |-> value]

\* metadata_utils.py 24-45.  There is no try block: an exception of
\* Image.open leaves the function.
extract_image_metadata(content) ==
  IF ~(content.fmt = "image" /\ content.valid)
    THEN Raised("UnidentifiedImageError")
  ELSE
    LET tags == DictMerge(content.zeroth, content.exif) IN
    IF DOMAIN tags = {} /\ DOMAIN content.gps = {}
      THEN Returned([exif |-> FALSE, tags |-> EmptyDict, gps |-> EmptyDict, hasGPS |-> FALSE,
                     Format |-> IF content.jpeg THEN "JPEG" ELSE "PNG",
                     Mode |-> "RGB", Size |-> <<4, 3>>])
      ELSE Returned([exif |-> TRUE, tags |-> tags, gps |-> content.gps,
                     hasGPS |-> DOMAIN content.gps # {},
                     Format |-> NoneVal, Mode |-> NoneVal, Size |-> <<>>])

\* metadata_utils.py 79-87: a missing key is a KeyError.
parse_gps(gps) ==
  IF DOMAIN gps = {} THEN Returned([none |-> TRUE])
  ELSE IF ~(GpsKeys \subseteq DOMAIN gps) THEN Raised("KeyError")
  ELSE Returned(
    [none |-> FALSE,
     GPSLatitude |-> <<gps["GPSLatitude"][1], "deg", gps["GPSLatitude"][2], "'",
                       gps["GPSLatitude"][3], "''", gps["GPSLatitudeRef"]>>,
     GPSLongitude |-> <<gps["GPSLongitude"][1], "deg", gps["GPSLongitude"][2], "'",
                        gps["GPSLongitude"][3], "''", gps["GPSLongitudeRef"]>>,
     GPSTimeStamp |-> <<gps["GPSTimeStamp"][1], ":", gps["GPSTimeStamp"][2], ":",
                        gps["GPSTimeStamp"][3], " UTC">>])

BasicKeys == {"Make", "Model", "Software", "DateTime", "DateTimeOriginal"}

\* metadata_utils.py 48-76
format_metadata(raw_metadata) ==
  IF \E key \in BasicKeys : Truthy(DictGet(raw_metadata.tags, key, ""))
    THEN
      LET g == parse_gps(raw_metadata.gps) IN
      IF g.raised THEN g
      ELSE Returned([BasicInfo |-> [k \in BasicKeys |-> DictGet(raw_metadata.tags, k, NoneVal)],
                     GPSInfo |-> g.value])
    ELSE
      Returned([BasicInfo |-> [Format |-> raw_metadata.Format,
                               Mode |-> raw_metadata.Mode,
                               Size |-> IF raw_metadata.Size = <<>> THEN <<>>
                                        ELSE <<raw_metadata.Size[1], " x ",
                                               raw_metadata.Size[2]>>],
                GPSInfo |-> [none |-> TRUE]])

\* metadata_utils.py 214-223: the editable field names.
tag_map == ZerothTags \cup ExifTags

\* Lines 228-231: the sub-structure a key is written to.
IfdOf(key) == IF key = "DateTimeOriginal" THEN "Exif" ELSE "0th"

\* Line 227: `if value and key in tag_map`.
ImageWrites(changes, ifd) ==
  {k \in DOMAIN changes : Truthy(changes[k]) /\ k \in tag_map /\ IfdOf(k) = ifd}

\* Lines 226-232: the tag dicts after the loop.
ApplyImageChanges(content, changes) ==
  [content EXCEPT
     !.zeroth = DictMerge(@, [k \in ImageWrites(changes, "0th") |-> changes[k]]),
     !.exif = DictMerge(@, [k \in ImageWrites(changes, "Exif") |-> changes[k]])]

\* Faults of the environment during an image update: writing the upload
\* into the temporary input file, or piexif.insert raising after the output
\* file was created.
ImageFaults == {"none", "tmpwrite", "insert"}

\* metadata_utils.py 197-250.  tmp_in and tmp_out are the ids of the two
\* temporary names.  The result is raised (line 250) or the output path.
update_image_metadata(disk, uploaded_file, changes, tmp_in, tmp_out, fault) ==
  LET suffix == Splitext1(uploaded_file.name)
      in_path == TmpPath(tmp_in, suffix)
      out_path == TmpPath(tmp_out, suffix)
      staged == FsWrite(disk, in_path, uploaded_file.content)
      \* the except branch: both temporary files are removed if they exist
      Fail(d) ==
        [raised |-> TRUE, path |-> <<>>,
         disk |-> LET d1 == IF FsExists(d, in_path) THEN FsRemove(d, in_path) ELSE d
                  IN d1]
      FailOut(d) ==
        [raised |-> TRUE, path |-> <<>>,
         disk |-> LET d1 == IF FsExists(d, in_path) THEN FsRemove(d, in_path) ELSE d
                  IN IF FsExists(d1, out_path) THEN FsRemove(d1, out_path) ELSE d1]
  IN
  \* tmp_in.write raises: tmp_in is bound (line 205), the except branch
  \* removes the file
  IF fault = "tmpwrite" THEN Fail(FsWrite(disk, in_path, PartialContent))
  \* piexif.load
  ELSE IF ~(staged[in_path].fmt = "image" /\ staged[in_path].valid /\ staged[in_path].jpeg)
    THEN Fail(staged)
  ELSE IF fault = "insert"
    THEN FailOut(FsWrite(staged, out_path, PartialContent))
  ELSE [raised |-> FALSE, path |-> out_path,
        disk |-> FsRemove(FsWrite(staged, out_path,
                                  ApplyImageChanges(staged[in_path], changes)),
                          in_path)]

\* ------------------------------------------------------------------ app.py

\* st.session_state.current_metadata = None / modified_path = None
NoMetadata == [None |-> TRUE]
NoPath == <<>>
NoUpload == [py |-> "None"]

\* Python truthiness of a metadata dict or None.
MetadataTruthy(m) == m # NoMetadata /\ DOMAIN m # {}

\* What one execution of the script leaves behind.
\*   cm, mp     st.session_state.current_metadata / modified_path
\*   disk       the file system
\*   crashed    an exception left the script (nothing below it ran)
\*   rerun      st.rerun() was called (nothing below it ran)
\*   form       the edit form was rendered
\*   view       the metadata handed to st.json, or NoMetadata
\*   calls      the adapter functions invoked
\*   apply      "none", "ok" or "failed": the outcome of the submit handler
\*   cm_src     "upload" or "artifact": what cm was last extracted from in
\*              this execution, "" if it was not assigned
Run(cm, mp, disk, crashed, rerun, form, view, calls, apply, cm_src) ==
  [cm |-> cm, mp |-> mp, disk |-> disk, crashed |-> crashed, rerun |-> rerun,
   form |-> form, view |-> view, calls |-> calls, apply |-> apply, cm_src |-> cm_src]

\* A form submit: the values of the form's text inputs.
NoSubmit == [pressed |-> FALSE, changes |-> EmptyDict]
Submitted(changes) == [pressed |-> TRUE, changes |-> changes]

\* The environment of one execution: the temporary names handed out, the
\* I/O fault injected into the update, the clock.
Env(tmp1, tmp2, fault, now) == [tmp1 |-> tmp1, tmp2 |-> tmp2, fault |-> fault, now |-> now]

\* A handler that records the output path before it knows the outcome.
SessionAfterApplyEager(ok, cm, mp, new_cm, out_path) ==
  [cm |-> IF ok THEN new_cm ELSE cm, mp |-> out_path]

\* app.py 132-144, 162-180, 218-226, 259-267: the session fields the submit
\* handler leaves.  Both are assigned only once the update has succeeded;
\* out_path is the path the update writes to.
SessionAfterApply(ok, cm, mp, new_cm, out_path) ==
  IF ok THEN [cm |-> new_cm, mp |-> out_path] ELSE [cm |-> cm, mp |-> mp]

\* app.py 118-122: the defaults of the image form's text inputs.
ImageFormDefaults(formatted_metadata) ==
  [k \in BasicKeys |-> DictGet(formatted_metadata.BasicInfo, k, "")]

\* app.py 132-144: the submit handler of the image form, from the result u
\* of update_image_metadata on.  formatted is the metadata of line 108.
ImageHandler(mp, formatted, out_path, u) ==
  IF u.raised
    THEN [s |-> SessionAfterApply(FALSE, formatted, mp, NoMetadata, out_path), ok |-> FALSE]
  ELSE
    \* lines 135-137: extract from the updated file, then normalize
    LET new_meta == extract_image_metadata(u.disk[u.path]) IN
    IF new_meta.raised
      THEN [s |-> SessionAfterApply(FALSE, formatted, mp, NoMetadata, out_path), ok |-> FALSE]
    ELSE
      LET new_formatted == format_metadata(new_meta.value) IN
      IF new_formatted.raised
        THEN [s |-> SessionAfterApply(FALSE, formatted, mp, NoMetadata, out_path),
              ok |-> FALSE]
        ELSE [s |-> SessionAfterApply(TRUE, formatted, mp, new_formatted.value, u.path),
              ok |-> TRUE]

\* app.py 109-144, with the metadata of line 108.
ImageFormatted(mp, disk, submit, c1, formatted, out_path, u) ==
  IF ~submit.pressed
    THEN Run(formatted, mp, disk, FALSE, FALSE, TRUE, formatted, c1, "none", "upload")
  ELSE
    LET h == ImageHandler(mp, formatted, out_path, u) IN
    Run(h.s.cm, h.s.mp, u.disk, FALSE, h.ok, TRUE, formatted,
        c1 \cup {"update_image_metadata"},
        IF h.ok THEN "ok" ELSE "failed",
        IF h.ok THEN "artifact" ELSE "upload")

\* app.py 108-144, with the result of line 107 and of line 108.
ImageExtracted(cm, mp, disk, uploaded_file, submit, env, metadata, formatted) ==
  IF metadata.raised
    THEN Run(cm, mp, disk, TRUE, FALSE, FALSE, NoMetadata,
             {"extract_image_metadata"}, "none", "")
  ELSE IF formatted.raised
    THEN Run(cm, mp, disk, TRUE, FALSE, FALSE, NoMetadata,
             {"extract_image_metadata", "format_metadata"}, "none", "")
  ELSE ImageFormatted(mp, disk, submit, {"extract_image_metadata", "format_metadata"},
                      formatted.value,
                      TmpPath(env.tmp2, Splitext1(uploaded_file.name)),
                      update_image_metadata(disk, uploaded_file, submit.changes,
                                            env.tmp1, env.tmp2, env.fault))

\* app.py 106-144
ImageBranch(cm, mp, disk, uploaded_file, submit, env) ==
  LET metadata == extract_image_metadata(uploaded_file.content) IN
  ImageExtracted(cm, mp, disk, uploaded_file, submit, env, metadata,
                 IF metadata.raised THEN metadata ELSE format_metadata(metadata.value))

\* app.py 155-156: the defaults of the PDF form's text inputs.
PdfFormDefaults(metadata) == [k \in PdfKeys |-> DictGet(metadata, k, "")]

\* app.py 147-180
PdfBranch(cm, mp, disk, uploaded_file, submit, env) ==
  LET metadata == extract_pdf_metadata(uploaded_file, env.now)
      c1 == {"extract_pdf_metadata"}
  IN
  IF ~submit.pressed
    THEN Run(metadata, mp, disk, FALSE, FALSE, TRUE, metadata, c1, "none", "upload")
  ELSE
  LET u == update_pdf_metadata(disk, uploaded_file, submit.changes, env.tmp1, env.fault)
      c2 == c1 \cup {"update_pdf_metadata"}
      ok == ~u.raised /\ FsExists(u.disk, u.path)
      s == SessionAfterApply(ok, metadata, mp,
                             extract_pdf_metadata(PathArg(u.path), env.now),
                             PdfOutputPath(uploaded_file))
  IN
  IF ok
    THEN Run(s.cm, s.mp, u.disk, FALSE, TRUE, TRUE, metadata, c2, "ok", "artifact")
    ELSE Run(s.cm, s.mp, u.disk, FALSE, FALSE, TRUE, metadata, c2, "failed", "upload")

\* app.py 183-189
VideoBranch(cm, mp, disk, uploaded_file, submit, env) ==
  LET v == extract_video_metadata(disk, uploaded_file, env.tmp1, env.fault) IN
  Run(v.metadata, mp, v.disk, FALSE, FALSE, FALSE, v.metadata,
      {"extract_video_metadata"}, "none", "upload")

\* app.py 206-209 / 247-250: the defaults of the office form's text inputs.
OfficeFormDefaults(metadata) ==
  [k \in CoreTextKeys |-> DictGet(metadata.CoreProperties, k, "")]

\* Lines 220-226 / 261-267: only a str naming an existing file is a success.
ResultAccepted(result, disk) == result.py = "str" /\ FsExists(disk, result.path)

\* app.py 192-230 (fmt = "docx") and 233-271 (fmt = "pptx"): the same
\* statements around the two adapters.
OfficeBranch(cm, mp, disk, uploaded_file, submit, env, fmt) ==
  LET suffix == IF fmt = "docx" THEN Ext_docx ELSE Ext_pptx
      extract_name == IF fmt = "docx" THEN "extract_docx_metadata" ELSE "extract_pptx_metadata"
      update_name == IF fmt = "docx" THEN "update_docx_metadata" ELSE "update_pptx_metadata"
      tmp_path == TmpPath(env.tmp1, suffix)
      staged == FsWrite(disk, tmp_path, uploaded_file.content)
      Extract(d, p) == IF fmt = "docx" THEN extract_docx_metadata(d, p)
                       ELSE extract_pptx_metadata(d, p)
      metadata == Extract(staged, tmp_path)
      \* the finally block: the temporary copy is removed
      Finally(d) == IF FsExists(d, tmp_path) THEN FsRemove(d, tmp_path) ELSE d
  IN
  IF IsError(metadata)
    \* st.session_state.current_metadata['CoreProperties'] is a KeyError
    THEN Run(metadata, mp, Finally(staged), TRUE, FALSE, FALSE, NoMetadata,
             {extract_name}, "none", "upload")
  ELSE IF ~submit.pressed
    THEN Run(metadata, mp, Finally(staged), FALSE, FALSE, TRUE, metadata,
             {extract_name}, "none", "upload")
  ELSE
  LET u == IF fmt = "docx"
             THEN update_docx_metadata(staged, tmp_path, submit.changes, env.now, env.fault)
             ELSE update_pptx_metadata(staged, tmp_path, submit.changes, env.now, env.fault)
      ok == ResultAccepted(u.result, u.disk)
      out_path == OfficeOutputPath(tmp_path)
      s == SessionAfterApply(ok, metadata, mp, Extract(u.disk, out_path), out_path)
  IN
  IF ok
    THEN Run(s.cm, s.mp, Finally(u.disk), FALSE, TRUE, TRUE, metadata,
             {extract_name, update_name}, "ok", "artifact")
    ELSE Run(s.cm, s.mp, Finally(u.disk), FALSE, FALSE, TRUE, metadata,
             {extract_name, update_name}, "failed", "upload")

\* app.py 276-299: the download buttons.  json is the data of the JSON
\* download (NoMetadata: no button); modified_name / modified_data are the
\* file name and the bytes of the modified-file download (<<>>: no button).
NoDownloads ==
  [json |-> NoMetadata, modified_name |-> <<>>, modified_data |-> PartialContent,
   offered |-> FALSE]

Downloads(cm, mp, disk, uploaded_file) ==
  [json |-> IF MetadataTruthy(cm) THEN cm ELSE NoMetadata,
   modified_name |-> IF mp # NoPath /\ FsExists(disk, mp)
                       THEN ModifiedPrefix \o uploaded_file.name ELSE <<>>,
   modified_data |-> IF mp # NoPath /\ FsExists(disk, mp) THEN disk[mp] ELSE PartialContent,
   offered |-> mp # NoPath /\ FsExists(disk, mp)]

\* app.py 44-299: one execution of the script with a file uploaded.
Script(cm, mp, disk, uploaded_file, submit, env) ==
  LET file_type == FileType(uploaded_file.name) IN
  IF file_type = "image" THEN ImageBranch(cm, mp, disk, uploaded_file, submit, env)
  ELSE IF file_type = "pdf" THEN PdfBranch(cm, mp, disk, uploaded_file, submit, env)
  ELSE IF file_type = "video" THEN VideoBranch(cm, mp, disk, uploaded_file, submit, env)
  ELSE IF file_type = "docx" THEN OfficeBranch(cm, mp, disk, uploaded_file, submit, env, "docx")
  ELSE IF file_type = "pptx" THEN OfficeBranch(cm, mp, disk, uploaded_file, submit, env, "pptx")
  ELSE Run(cm, mp, disk, FALSE, FALSE, FALSE, NoMetadata, {}, "none", "")

\* ------------------------------------------------------------------ inputs

Name_a_jpg  == <<"a">> \o Ext_jpg
Name_B_JPG  == <<"B", ".", "J", "P", "G">>
Name_c_png  == <<"c">> \o Ext_png
Name_g_jpeg == <<"g">> \o Ext_jpeg
Name_d_pdf  == <<"d">> \o Ext_pdf
Name_x_pdf  == <<"x">> \o Ext_pdf
Name_f_docx == <<"f">> \o Ext_docx
Name_h_pptx == <<"h">> \o Ext_pptx
Name_v_mp4  == <<"v">> \o Ext_mp4
Name_n_txt  == <<"n">> \o Ext_txt
Name_jpg    == <<"j", "p", "g">>

FullGps == [GPSLatitude |-> <<48, 51, 30>>, GPSLatitudeRef |-> "N",
            GPSLongitude |-> <<2, 17, 40>>, GPSLongitudeRef |-> "E",
            GPSTimeStamp |-> <<12, 0, 5>>]

\* The files a user uploads.  Each declares a MIME type; the browser's type
\* for an office file is often a generic one.
Uploads ==
  { \* a JPEG with a Make tag
    UploadedFile(Name_a_jpg, "image/jpeg",
      ImageContent(TRUE, TRUE, [Make |-> "T"], EmptyDict, EmptyDict)),
    \* a JPEG without tag data, upper-case extension
    UploadedFile(Name_B_JPG, "image/jpeg",
      ImageContent(TRUE, TRUE, EmptyDict, EmptyDict, EmptyDict)),
    \* a PNG: piexif cannot load it
    UploadedFile(Name_c_png, "image/png",
      ImageContent(TRUE, FALSE, EmptyDict, EmptyDict, EmptyDict)),
    \* a JPEG whose GPS sub-group holds a latitude and nothing else
    UploadedFile(Name_g_jpeg, "image/jpeg",
      ImageContent(TRUE, TRUE, [Model |-> "T"], EmptyDict,
                   [GPSLatitude |-> <<48, 51, 30>>, GPSLatitudeRef |-> "N"])),
    \* a PDF with a Title and no Author
    UploadedFile(Name_d_pdf, "application/pdf", PdfContent([Title |-> "T"])),
    \* a file named .pdf that is no PDF, declared as an image
    UploadedFile(Name_x_pdf, "image/jpeg", PartialContent),
    \* a Word document stamped at time 1
    UploadedFile(Name_f_docx, "application/octet-stream",
      OfficeContent("docx", [k \in CoreTextKeys |-> IF k = "title" THEN "T" ELSE ""], 1)),
    \* a presentation stamped at time 0
    UploadedFile(Name_h_pptx, "application/octet-stream",
      OfficeContent("pptx", [k \in CoreTextKeys |-> IF k = "author" THEN "T" ELSE ""], 0)),
    \* a video with one General and two Audio tracks
    UploadedFile(Name_v_mp4, "video/mp4",
      VideoContent(<<[track_type |-> "General", data |-> [Format |-> "MPEG-4", Title |-> ""]],
                     [track_type |-> "Audio", data |-> [Language |-> "en"]],
                     [track_type |-> "Audio", data |-> [Language |-> "fr"]]>>)),
    \* a text file, declared as a PDF
    UploadedFile(Name_n_txt, "application/pdf", [fmt |-> "other", valid |-> TRUE]),
    \* a JPEG whose name has no dot
    UploadedFile(Name_jpg, "image/jpeg",
      ImageContent(TRUE, TRUE, EmptyDict, EmptyDict, EmptyDict)) }

\* ------------------------------------------------------------------ state

VARIABLES
  uploaded_file,     \* the file in the uploader, or NoUpload
  current_metadata,  \* st.session_state.current_metadata
  modified_path,     \* st.session_state.modified_path
  disk,              \* the file system
  now,               \* the clock
  pending_rerun,     \* st.rerun() was called and the script has not run again
  shown,             \* what the last execution of the script rendered
  before,            \* history: the session fields just before the last submit handler ran
  mp_owner,          \* history: the name of the upload whose apply set modified_path
  cm_owner,          \* history: the name of the upload current_metadata was extracted from
  call               \* AdapterSpec: the last direct call of an adapter function

vars == <<uploaded_file, current_metadata, modified_path, disk, now, pending_rerun,
          shown, before, mp_owner, cm_owner, call>>

NoCall == [fn |-> "none"]

Shown(r, file_type, downloads) ==
  [crashed |-> r.crashed, form |-> r.form, view |-> r.view, calls |-> r.calls,
   apply |-> r.apply, file_type |-> file_type, downloads |-> downloads]

NothingShown ==
  [crashed |-> FALSE, form |-> FALSE, view |-> NoMetadata, calls |-> {},
   apply |-> "none", file_type |-> "", downloads |-> NoDownloads]

\* A fresh browser session: nothing uploaded, st.session_state empty (lines
\* 62-65 set both fields to None on the first execution with a file).
Init ==
  /\ uploaded_file = NoUpload
  /\ current_metadata = NoMetadata
  /\ modified_path = NoPath
  /\ disk = [p \in {} |-> PartialContent]
  /\ now \in 0..MaxTime
  /\ pending_rerun = FALSE
  /\ shown = NothingShown
  /\ before = [cm |-> NoMetadata, mp |-> NoPath]
  /\ mp_owner = <<>>
  /\ cm_owner = <<>>
  /\ call = NoCall

\* ------------------------------------------------------------------ the script's runs

\* The environments one execution may meet: free temporary names for the
\* temporary files it creates, and a fault for the update or probe it makes.
EnvChoices(file, pressed) ==
  LET file_type == FileType(file.name)
      free == FreeTmp(disk, IF file_type = "docx" THEN Ext_docx
                            ELSE IF file_type = "pptx" THEN Ext_pptx
                            ELSE IF file_type = "pdf" THEN Ext_pdf
                            ELSE Splitext1(file.name))
  IN
  IF file_type = "image" /\ pressed
    THEN {Env(t1, t2, f, now) : t1 \in free, t2 \in free, f \in ImageFaults} \
         {Env(t, t, f, now) : t \in free, f \in ImageFaults}
  ELSE IF file_type = "pdf" /\ pressed
    THEN {Env(t, t, f, now) : t \in free, f \in PdfFaults}
  ELSE IF file_type = "video"
    THEN {Env(t, t, f, now) : t \in free, f \in VideoFaults}
  ELSE IF file_type \in {"docx", "pptx"}
    THEN {Env(t, t, f, now) : t \in free, f \in IF pressed THEN OfficeFaults ELSE {"none"}}
  ELSE {Env(1, 1, "none", now)}

\* One execution of the script, top to bottom, with `file` in the uploader,
\* on a disk that holds at most cap files afterwards.
ExecuteWithin(file, submit, cap) ==
  \E env \in EnvChoices(file, submit.pressed) :
    \E r \in {Script(current_metadata, modified_path, disk, file, submit, env)} :
    /\ uploaded_file' = file
    /\ current_metadata' = r.cm
    /\ modified_path' = r.mp
    /\ disk' = r.disk
    /\ pending_rerun' = r.rerun
    /\ shown' = Shown(r, FileType(file.name),
                      IF r.crashed \/ r.rerun THEN NoDownloads
                      ELSE Downloads(r.cm, r.mp, r.disk, file))
    /\ before' = IF submit.pressed
                   THEN [cm |-> Script(current_metadata, modified_path, disk, file,
                                       NoSubmit, env).cm,
                         mp |-> modified_path]
                   ELSE [cm |-> NoMetadata, mp |-> NoPath]
    /\ mp_owner' = IF r.apply = "ok" THEN file.name ELSE mp_owner
    /\ cm_owner' = IF r.cm_src # "" THEN file.name ELSE cm_owner
    /\ Cardinality(DOMAIN r.disk) <= cap
    /\ UNCHANGED <<now, call>>

Execute(file, submit) == ExecuteWithin(file, submit, MaxFiles)

\* The user puts a file into the uploader: the script runs.
Upload ==
  /\ ~pending_rerun
  /\ \E file \in Uploads : Execute(file, NoSubmit)

\* The defaults of the rendered form's inputs.
FormDefaults ==
  IF shown.file_type = "image" THEN ImageFormDefaults(shown.view)
  ELSE IF shown.file_type = "pdf" THEN PdfFormDefaults(shown.view)
  ELSE OfficeFormDefaults(shown.view)

\* The user retypes at most MaxEdits inputs of the rendered form and presses
\* "Update Metadata": the script runs with the form's values.
SubmitWithin(cap) ==
  /\ ~pending_rerun
  /\ uploaded_file # NoUpload
  /\ shown.form
  /\ \E keys \in {ks \in SUBSET DOMAIN FormDefaults : Cardinality(ks) <= MaxEdits} :
       \E edits \in [keys -> Val] :
         \E submit \in {Submitted(DictMerge(FormDefaults, edits))} :
           ExecuteWithin(uploaded_file, submit, cap)

Submit == SubmitWithin(MaxFiles)

\* The execution st.rerun() asked for.
RerunWithin(cap) ==
  /\ pending_rerun
  /\ ExecuteWithin(uploaded_file, NoSubmit, cap)

Rerun == RerunWithin(MaxFiles)

\* The user removes the file from the uploader: the script's else branch
\* (lines 301-311) touches nothing.
Clear ==
  /\ ~pending_rerun
  /\ uploaded_file # NoUpload
  /\ uploaded_file' = NoUpload
  /\ shown' = NothingShown
  /\ UNCHANGED <<current_metadata, modified_path, disk, now, pending_rerun, before,
                 mp_owner, cm_owner, call>>

\* Time passes.
Tick ==
  /\ now < MaxTime
  /\ now' = now + 1
  /\ UNCHANGED <<uploaded_file, current_metadata, modified_path, disk, pending_rerun,
                 shown, before, mp_owner, cm_owner, call>>

Next == Upload \/ Submit \/ Rerun \/ Clear \/ Tick

Spec == Init /\ [][Next]_vars

\* ------------------------------------------------------------------ repeated applies

\* One browser session in which the user applies edits again and again: the
\* editable uploads, on a disk of at most MaxArtifacts files.
EditableUploads == {f \in Uploads : f.name \in {Name_a_jpg, Name_d_pdf, Name_f_docx}}

UploadEditable ==
  /\ ~pending_rerun
  /\ \E file \in EditableUploads : ExecuteWithin(file, NoSubmit, MaxArtifacts)

SubmitAgain == SubmitWithin(MaxArtifacts)

RerunAgain == RerunWithin(MaxArtifacts)

ApplyNext == UploadEditable \/ SubmitAgain \/ RerunAgain

ApplySpec == Init /\ [][ApplyNext]_vars

\* ------------------------------------------------------------------ direct adapter calls

Name_k_docx == <<"k">> \o Ext_docx
Name_z_docx == <<"z">> \o Ext_docx
Path_u_h_pptx == <<Slash, "u", Slash>> \o Name_h_pptx

DocxOnDisk == OfficeContent("docx", [k \in CoreTextKeys |-> IF k = "title" THEN "T" ELSE ""], 1)
PptxOnDisk == OfficeContent("pptx", [k \in CoreTextKeys |-> IF k = "author" THEN "T" ELSE ""], 0)

\* The disks an office adapter is called on: a Word document in the working
\* directory, a presentation in another directory, a file named .docx that
\* is no document; with or without the outputs of an earlier update.
CleanDisk ==
  [p \in {Name_f_docx, Path_u_h_pptx, Name_k_docx} |->
     IF p = Name_f_docx THEN DocxOnDisk
     ELSE IF p = Path_u_h_pptx THEN PptxOnDisk
     ELSE PartialContent]

UsedDisk ==
  FsWrite(FsWrite(CleanDisk, ModifiedPrefix \o Name_f_docx, DocxOnDisk),
          ModifiedPrefix \o Name_h_pptx, PptxOnDisk)

InputDisks == {CleanDisk, UsedDisk}

\* The paths an office adapter is called with; z.docx does not exist.
OfficeInputPaths == {Name_f_docx, Path_u_h_pptx, Name_k_docx, Name_z_docx}

\* The keys of an office change set: the text attributes and one name that
\* is no attribute of a core-properties object.
OfficeChangeKeys == CoreTextKeys \cup {"flavour"}

\* The images an image adapter is called on.
ImageInputs ==
  { \* Make, Artist and DateTimeOriginal set
    UploadedFile(Name_a_jpg, "image/jpeg",
      ImageContent(TRUE, TRUE, [Make |-> "T", Artist |-> "T"],
                   [DateTimeOriginal |-> "T"], EmptyDict)),
    \* no tag data
    UploadedFile(Name_B_JPG, "image/jpeg",
      ImageContent(TRUE, TRUE, EmptyDict, EmptyDict, EmptyDict)),
    \* a PNG
    UploadedFile(Name_c_png, "image/png",
      ImageContent(TRUE, FALSE, EmptyDict, EmptyDict, EmptyDict)),
    \* a complete GPS sub-group
    UploadedFile(Name_g_jpeg, "image/jpeg",
      ImageContent(TRUE, TRUE, [Model |-> "T"], EmptyDict, FullGps)),
    \* a GPS sub-group with a latitude and nothing else
    UploadedFile(Name_g_jpeg, "image/jpeg",
      ImageContent(TRUE, TRUE, [Model |-> "T"], EmptyDict,
                   [GPSLatitude |-> <<48, 51, 30>>, GPSLatitudeRef |-> "N"])),
    \* a complete GPS sub-group and an Artist tag, none of the five basic tags
    UploadedFile(Name_g_jpeg, "image/jpeg",
      ImageContent(TRUE, TRUE, [Artist |-> "T"], EmptyDict, FullGps)),
    \* bytes that are no image
    UploadedFile(Name_a_jpg, "image/jpeg", PartialContent) }

\* The keys of an image change set: the editable names and one that is not.
ImageChangeKeys == tag_map \cup {"Orientation"}

\* The PDFs a PDF adapter is called on.
PdfInputs ==
  { UploadedFile(Name_d_pdf, "application/pdf", PdfContent([Title |-> "T"])),
    UploadedFile(Name_d_pdf, "application/pdf", PdfContent(EmptyDict)),
    UploadedFile(Name_x_pdf, "application/pdf", PartialContent) }

VideoInputs ==
  { f \in Uploads : f.name \in {Name_v_mp4, Name_n_txt} }

AdapterInit ==
  /\ uploaded_file = NoUpload
  /\ current_metadata = NoMetadata
  /\ modified_path = NoPath
  /\ disk \in InputDisks
  /\ now \in 0..MaxTime
  /\ pending_rerun = FALSE
  /\ shown = NothingShown
  /\ before = [cm |-> NoMetadata, mp |-> NoPath]
  /\ mp_owner = <<>>
  /\ cm_owner = <<>>
  /\ call = NoCall

AppUnchanged ==
  UNCHANGED <<uploaded_file, current_metadata, modified_path, pending_rerun, shown,
              before, mp_owner, cm_owner>>

\* update_docx_metadata / update_pptx_metadata(input_path, changes) on the
\* current disk.
CallUpdateOffice ==
  /\ call.fn = "none"
  /\ \E fn \in {"update_docx_metadata", "update_pptx_metadata"},
        input_path \in OfficeInputPaths, changes \in ChangeSets(OfficeChangeKeys),
        fault \in OfficeFaults :
    \E u \in {IF fn = "update_docx_metadata"
                THEN update_docx_metadata(disk, input_path, changes, now, fault)
                ELSE update_pptx_metadata(disk, input_path, changes, now, fault)} :
      /\ disk' = u.disk
      /\ call' = [fn |-> fn, input_path |-> input_path, changes |-> changes,
                  fault |-> fault, at |-> now, disk_before |-> disk, result |-> u.result]
      /\ UNCHANGED now
      /\ AppUnchanged

\* extract_docx_metadata / extract_pptx_metadata(file_path): on a file of the
\* disk or a missing one, or after an update on its input and on its output.
CallExtractOffice ==
  \E fn \in {"extract_docx_metadata", "extract_pptx_metadata"},
     file_path \in IF call.fn = "none" THEN DOMAIN disk \cup {Name_z_docx}
                   ELSE IF call.fn \in {"update_docx_metadata", "update_pptx_metadata"}
                     THEN {call.input_path, OfficeOutputPath(call.input_path)}
                   ELSE {} :
    /\ \/ call.fn = "none"
       \/ call.fn = "update_docx_metadata" /\ fn = "extract_docx_metadata"
       \/ call.fn = "update_pptx_metadata" /\ fn = "extract_pptx_metadata"
    /\ call' = [fn |-> fn, file_path |-> file_path, prev |-> call, raised |-> FALSE,
                metadata |-> IF fn = "extract_docx_metadata"
                               THEN extract_docx_metadata(disk, file_path)
                               ELSE extract_pptx_metadata(disk, file_path)]
    /\ UNCHANGED <<disk, now>>
    /\ AppUnchanged

\* update_pdf_metadata(uploaded_file, changes) in an empty working directory.
CallUpdatePdf ==
  /\ call.fn = "none"
  /\ \E f \in PdfInputs, changes \in ChangeSets(PdfKeys \cup {"Subject"}),
        tmp \in TmpIds, fault \in PdfFaults :
    \E u \in {update_pdf_metadata(EmptyDict, f, changes, tmp, fault)} :
      /\ disk' = u.disk
      /\ call' = [fn |-> "update_pdf_metadata", uploaded_file |-> f, changes |-> changes,
                  fault |-> fault, tmp_path |-> TmpPath(tmp, Ext_pdf),
                  raised |-> u.raised, path |-> u.path]
      /\ UNCHANGED now
      /\ AppUnchanged

\* extract_pdf_metadata(uploaded_file) on an upload, or on the path an update
\* returned.
CallExtractPdf ==
  \/ /\ call.fn = "none"
     /\ \E f \in PdfInputs :
       /\ call' = [fn |-> "extract_pdf_metadata", arg |-> f, prev |-> NoCall,
                   raised |-> FALSE, metadata |-> extract_pdf_metadata(f, now)]
       /\ UNCHANGED <<disk, now>>
       /\ AppUnchanged
  \/ /\ call.fn = "update_pdf_metadata"
     /\ ~call.raised
     /\ call' = [fn |-> "extract_pdf_metadata", arg |-> PathArg(call.path), prev |-> call,
                 raised |-> FALSE,
                 metadata |-> extract_pdf_metadata(PathArg(call.path), now)]
     /\ UNCHANGED <<disk, now>>
     /\ AppUnchanged

\* update_image_metadata(uploaded_file, changes) with no other file on disk.
CallUpdateImage ==
  /\ call.fn = "none"
  /\ \E f \in ImageInputs, changes \in ChangeSets(ImageChangeKeys),
        tmp_in \in TmpIds, tmp_out \in TmpIds, fault \in ImageFaults :
    /\ tmp_in # tmp_out
    /\ \E u \in {update_image_metadata(EmptyDict, f, changes, tmp_in, tmp_out, fault)} :
      /\ disk' = u.disk
      /\ call' = [fn |-> "update_image_metadata", uploaded_file |-> f, changes |-> changes,
                  fault |-> fault, tmp_path |-> TmpPath(tmp_in, Splitext1(f.name)),
                  raised |-> u.raised, path |-> u.path]
      /\ UNCHANGED now
      /\ AppUnchanged

\* format_metadata(extract_image_metadata(uploaded_file)), as app.py 107-108
\* and 136-137 call them.
ExtractAndFormat(content) ==
  LET metadata == extract_image_metadata(content) IN
  IF metadata.raised THEN metadata ELSE format_metadata(metadata.value)

CallExtractImage ==
  \/ /\ call.fn = "none"
     /\ \E f \in ImageInputs :
       \E r \in {ExtractAndFormat(f.content)} :
         /\ call' = [fn |-> "extract_image_metadata", content |-> f.content,
                     prev |-> NoCall, raised |-> r.raised, result |-> r]
         /\ UNCHANGED <<disk, now>>
         /\ AppUnchanged
  \/ /\ call.fn = "update_image_metadata"
     /\ ~call.raised
     /\ \E r \in {ExtractAndFormat(disk[call.path])} :
         /\ call' = [fn |-> "extract_image_metadata", content |-> disk[call.path],
                     prev |-> call, raised |-> r.raised, result |-> r]
         /\ UNCHANGED <<disk, now>>
         /\ AppUnchanged

\* extract_video_metadata(uploaded_file) with no other file on disk.
CallExtractVideo ==
  /\ call.fn = "none"
  /\ \E f \in VideoInputs, tmp \in TmpIds, fault \in VideoFaults :
    \E v \in {extract_video_metadata(EmptyDict, f, tmp, fault)} :
      /\ disk' = v.disk
      /\ call' = [fn |-> "extract_video_metadata", uploaded_file |-> f, fault |-> fault,
                  tmp_path |-> TmpPath(tmp, Splitext1(f.name)),
                  raised |-> FALSE, metadata |-> v.metadata]
      /\ UNCHANGED now
      /\ AppUnchanged

AdapterNext ==
  \/ CallUpdateOffice \/ CallExtractOffice
  \/ CallUpdatePdf \/ CallExtractPdf
  \/ CallUpdateImage \/ CallExtractImage
  \/ CallExtractVideo
  \/ Tick

AdapterSpec == AdapterInit /\ [][AdapterNext]_vars

\* ------------------------------------------------------------------ properties

UpdateOfficeFns == {"update_docx_metadata", "update_pptx_metadata"}
ExtractOfficeFns == {"extract_docx_metadata", "extract_pptx_metadata"}

\* A value a form input holds when the user leaves it empty or types only
\* white space.
Blank(v) == Strip(v) = ""

\* C1: after the submit handler of a form failed, current_metadata and
\* modified_path are what they were just before the handler ran.
C1_FailedApplyKeepsSession ==
  shown.apply = "failed" =>
    /\ current_metadata = before.cm
    /\ modified_path = before.mp

\* A failed apply in a session that holds the path of an earlier successful
\* apply.
C1_Witness ==
  /\ shown.apply = "failed"
  /\ modified_path # NoPath
  /\ current_metadata # NoMetadata

\* The metadata of a file of the disk, as the adapter of file_type extracts
\* it; the clock reading a PDF extraction adds is left out.
ArtifactMetadata(file_type, content) ==
  IF file_type = "image" THEN ExtractAndFormat(content)
  ELSE IF file_type = "pdf"
    THEN Returned(IF PdfParses(content) THEN content.info ELSE ErrorRecord("Failed to read PDF metadata"))
  ELSE IF Opens([p \in {<<>>} |-> content], <<>>, file_type)
    THEN Returned([k \in CoreTextKeys \cup {"modified"} |->
                     IF k = "modified" THEN content.modified ELSE content.props[k]])
  ELSE Returned(ErrorRecord("Metadata Error"))

\* current_metadata in the same shape.
SessionMetadata(file_type, cm) ==
  IF file_type = "image" THEN Returned(cm)
  ELSE IF file_type = "pdf"
    THEN Returned([k \in DOMAIN cm \ {"PDFVersion", "PageCount", "ExtractedAt"} |-> cm[k]])
  ELSE IF "CoreProperties" \in DOMAIN cm THEN Returned(cm.CoreProperties)
  ELSE Returned(cm)

\* C2: whenever the script has rendered the metadata and offers the modified
\* file of the current upload, current_metadata is what extraction from the
\* file at modified_path yields.
C2_MetadataMatchesArtifact ==
  ( /\ ~pending_rerun
    /\ shown.downloads.offered
    /\ shown.file_type \in {"image", "pdf", "docx", "pptx"}
    /\ mp_owner = uploaded_file.name )
  => SessionMetadata(shown.file_type, current_metadata)
       = ArtifactMetadata(shown.file_type, disk[modified_path])

\* C3: whenever the modified-file download is offered, modified_path was set
\* by an apply on the file now in the uploader, and current_metadata was
\* extracted from that file or its artifact.
C3_DownloadIsOfCurrentFile ==
  shown.downloads.offered =>
    /\ mp_owner = uploaded_file.name
    /\ cm_owner = uploaded_file.name

\* The extension table of the dispatch: extension, without the dot, to type.
ExtensionTypes ==
  { <<Tail(Ext_jpg), "image">>, <<Tail(Ext_jpeg), "image">>, <<Tail(Ext_png), "image">>,
    <<Tail(Ext_pdf), "pdf">>, <<Tail(Ext_docx), "docx">>, <<Tail(Ext_pptx), "pptx">>,
    <<Tail(Ext_mp4), "video">>, <<Tail(Ext_mov), "video">>, <<Tail(Ext_avi), "video">> }

\* The types the table gives a name: those of the extensions the lower-cased
\* name ends in, after a dot.
TypesOfName(name) ==
  {e[2] : e \in {x \in ExtensionTypes : EndsWith(Lower(name), <<".">> \o x[1])}}

\* The adapter functions of each type.
AdapterFns(file_type) ==
  IF file_type = "image"
    THEN {"extract_image_metadata", "format_metadata", "update_image_metadata"}
  ELSE IF file_type = "pdf" THEN {"extract_pdf_metadata", "update_pdf_metadata"}
  ELSE IF file_type = "docx" THEN {"extract_docx_metadata", "update_docx_metadata"}
  ELSE IF file_type = "pptx" THEN {"extract_pptx_metadata", "update_pptx_metadata"}
  ELSE IF file_type = "video" THEN {"extract_video_metadata"}
  ELSE {}

\* C4: the branch the script takes is the one the extension table gives the
\* file name, whatever MIME type the upload declares; it calls functions of
\* that type's adapter only, and none for a name the table does not list.
C4_DispatchByExtension ==
  uploaded_file # NoUpload =>
    /\ TypesOfName(uploaded_file.name) \subseteq {shown.file_type}
    /\ TypesOfName(uploaded_file.name) = {} <=> shown.file_type = "unsupported"
    /\ shown.calls \subseteq AdapterFns(shown.file_type)
    /\ shown.file_type # "unsupported" => shown.calls # {}

\* A text file declared as a PDF reaches no adapter.
C4_Witness ==
  /\ uploaded_file # NoUpload
  /\ get_file_type(uploaded_file.type) = "pdf"
  /\ shown.file_type = "unsupported"
  /\ shown.calls = {}

\* An upload with an upper-case extension is dispatched; so is a file named
\* .pdf that declares itself an image.
C4_WitnessUpperCase ==
  /\ uploaded_file # NoUpload
  /\ uploaded_file.name = Name_B_JPG
  /\ shown.file_type = "image"
  /\ shown.calls # {}

C4_WitnessMime ==
  /\ uploaded_file # NoUpload
  /\ get_file_type(uploaded_file.type) = "image"
  /\ shown.file_type = "pdf"
  /\ shown.calls = {"extract_pdf_metadata"}

\* C5: an update whose change set holds a blank value for a field succeeds
\* and leaves that field in the output as it is in the input.
C5_BlankLeavesFieldUnchanged ==
  /\ ( /\ call.fn \in UpdateOfficeFns
       /\ call.fault = "none"
       /\ Opens(call.disk_before, call.input_path,
                IF call.fn = "update_docx_metadata" THEN "docx" ELSE "pptx") )
     => \A k \in DOMAIN call.changes \cap CoreTextKeys :
          Blank(call.changes[k]) =>
            /\ call.result.py = "str"
            /\ disk[call.result.path].props[k] = call.disk_before[call.input_path].props[k]
  /\ ( /\ call.fn = "update_pdf_metadata"
       /\ call.fault = "none"
       /\ PdfParses(call.uploaded_file.content) )
     => \A k \in DOMAIN call.changes :
          Blank(call.changes[k]) =>
            /\ ~call.raised
            /\ DictGet(disk[call.path].info, k, NoneVal)
                 = DictGet(call.uploaded_file.content.info, k, NoneVal)
  /\ ( /\ call.fn = "update_image_metadata"
       /\ ~call.raised )
     => \A k \in DOMAIN call.changes \cap tag_map :
          Blank(call.changes[k]) =>
            /\ DictGet(disk[call.path].zeroth, k, NoneVal)
                 = DictGet(call.uploaded_file.content.zeroth, k, NoneVal)
            /\ DictGet(disk[call.path].exif, k, NoneVal)
                 = DictGet(call.uploaded_file.content.exif, k, NoneVal)

\* C6: update_pdf_metadata returns a path only if the Info of the file at
\* that path holds every key of the change set; when the written output
\* lacks a key, or cannot be read back, the call raises and returns no path.
C6_PdfPathOnlyIfVerified ==
  call.fn = "update_pdf_metadata" =>
    LET output_path == PdfOutputPath(call.uploaded_file) IN
    /\ ~call.raised =>
         /\ call.path = output_path
         /\ FsExists(disk, call.path)
         /\ PdfParses(disk[call.path])
         /\ \A k \in DOMAIN call.changes : k \in DOMAIN disk[call.path].info
    /\ ( /\ FsExists(disk, output_path)
         /\ PdfParses(disk[output_path])
         /\ \E k \in DOMAIN call.changes : k \notin DOMAIN disk[output_path].info )
       => call.raised
    /\ call.fault = "reread" => call.raised
    /\ call.raised => call.path = <<>>

\* An update whose output was written without one of the changed keys: it
\* raised.
C6_Witness ==
  /\ call.fn = "update_pdf_metadata"
  /\ call.fault = "none"
  /\ call.raised
  /\ FsExists(disk, PdfOutputPath(call.uploaded_file))
  /\ PdfParses(disk[PdfOutputPath(call.uploaded_file)])
  /\ \E k \in DOMAIN call.changes :
       /\ k \notin DOMAIN disk[PdfOutputPath(call.uploaded_file)].info
       /\ \E j \in DOMAIN call.changes :
            j \in DOMAIN disk[PdfOutputPath(call.uploaded_file)].info
            /\ disk[PdfOutputPath(call.uploaded_file)].info[j] = call.changes[j]

\* C7: update_docx_metadata / update_pptx_metadata return either an error
\* record, and then modified_<basename> does not exist, or the path of
\* modified_<basename>, and then that file exists and opens; the input file
\* is as it was.
C7_OfficeResultShape ==
  call.fn \in UpdateOfficeFns =>
    LET output_path == ModifiedPrefix \o Basename(call.input_path) IN
    /\ call.result.py \in {"str", "dict"}
    /\ call.result.py = "dict" =>
         /\ "Error" \in DOMAIN call.result
         /\ ~FsExists(disk, output_path)
    /\ call.result.py = "str" =>
         /\ call.result.path = output_path
         /\ FsExists(disk, output_path)
         /\ disk[output_path].valid
    /\ ( \/ call.fault # "none"
         \/ ~Opens(call.disk_before, call.input_path,
                   IF call.fn = "update_docx_metadata" THEN "docx" ELSE "pptx")
         \/ \E k \in DOMAIN call.changes \ CoreTextKeys : call.changes[k] # "" )
       => call.result.py = "dict"
    /\ FsExists(call.disk_before, call.input_path) =>
         /\ FsExists(disk, call.input_path)
         /\ disk[call.input_path] = call.disk_before[call.input_path]

\* A save that failed on a disk which held the output of an earlier update:
\* the output is gone and an error record came back.
C7_Witness ==
  /\ call.fn \in UpdateOfficeFns
  /\ call.fault = "save"
  /\ FsExists(call.disk_before, call.input_path)
  /\ FsExists(call.disk_before, ModifiedPrefix \o Basename(call.input_path))
  /\ call.result.py = "dict"
  /\ ~FsExists(disk, ModifiedPrefix \o Basename(call.input_path))

\* A verification mismatch: a key that is no attribute, with a value.
C7_WitnessMismatch ==
  /\ call.fn \in UpdateOfficeFns
  /\ call.fault = "none"
  /\ Opens(call.disk_before, call.input_path,
           IF call.fn = "update_docx_metadata" THEN "docx" ELSE "pptx")
  /\ call.result.py = "dict"

\* C8: no extract call raises; a failed extraction is a record whose only
\* key is Error.
C8_ExtractNeverRaises ==
  /\ call.fn \in ExtractOfficeFns \cup {"extract_pdf_metadata", "extract_video_metadata",
                                        "extract_image_metadata"}
       => ~call.raised
  /\ call.fn \in ExtractOfficeFns \cup {"extract_pdf_metadata", "extract_video_metadata"}
       => (IsError(call.metadata) => DOMAIN call.metadata = {"Error"})

\* C9: a successful update_docx_metadata / update_pptx_metadata stamps the
\* output's modified with the time of the call, whatever the change set; an
\* extract on the returned path after apply({title: X ...}) yields title X and
\* the time of the call as modified, which is later than the input's modified
\* when the input's modified precedes the call.
C9_StampIsCallTime ==
  /\ (call.fn \in UpdateOfficeFns /\ call.result.py = "str")
       => disk[call.result.path].modified = call.at
  /\ ( /\ call.fn \in ExtractOfficeFns
       /\ call.prev.fn \in UpdateOfficeFns
       /\ call.prev.result.py = "str"
       /\ call.file_path = call.prev.result.path )
     => /\ ~IsError(call.metadata)
        /\ call.metadata.CoreProperties.modified = call.prev.at
        /\ "title" \in DOMAIN call.prev.changes
             => call.metadata.CoreProperties.title = call.prev.changes["title"]
        /\ call.prev.disk_before[call.prev.input_path].modified < call.prev.at
             => call.metadata.CoreProperties.modified
                  > call.prev.disk_before[call.prev.input_path].modified

\* apply({title: "X"}) on a file stamped before the call, then extract.
C9_Witness ==
  /\ call.fn \in ExtractOfficeFns
  /\ call.prev.fn \in UpdateOfficeFns
  /\ call.prev.result.py = "str"
  /\ call.file_path = call.prev.result.path
  /\ call.prev.changes = [title |-> "X"]
  /\ call.prev.disk_before[call.prev.input_path].modified < call.prev.at
  /\ call.metadata.CoreProperties.title = "X"

\* An all-blank change set: the stamp is written all the same.
C9_WitnessBlank ==
  /\ call.fn \in UpdateOfficeFns
  /\ call.result.py = "str"
  /\ call.changes = [title |-> "", author |-> " "]
  /\ call.disk_before[call.input_path].modified # call.at
  /\ disk[call.result.path].modified = call.at

\* C9 with a modified that is later whatever the input's: after
\* apply({title: X ...}), extract on the returned path yields title X and a
\* modified strictly later than the input's.
C9_StrictlyLater ==
  ( /\ call.fn \in ExtractOfficeFns
    /\ call.prev.fn \in UpdateOfficeFns
    /\ call.prev.result.py = "str"
    /\ call.file_path = call.prev.result.path
    /\ "title" \in DOMAIN call.prev.changes )
  => /\ call.metadata.CoreProperties.title = call.prev.changes["title"]
     /\ call.metadata.CoreProperties.modified
          > call.prev.disk_before[call.prev.input_path].modified

\* C10: in the output of update_image_metadata, a non-blank DateTimeOriginal
\* of the change set is in the Exif sub-structure only and every other
\* non-blank editable field in the 0th one only; a field that is blank, not
\* in the change set or not editable is in both as it was loaded.
C10_ImageRouting ==
  (call.fn = "update_image_metadata" /\ ~call.raised) =>
    LET loaded == call.uploaded_file.content
        out == disk[call.path]
    IN \A k \in tag_map \cup DOMAIN call.changes :
         IF k \in DOMAIN call.changes /\ k \in tag_map /\ ~Blank(call.changes[k])
           THEN IF k = "DateTimeOriginal"
                  THEN /\ DictGet(out.exif, k, NoneVal) = call.changes[k]
                       /\ DictGet(out.zeroth, k, NoneVal) = DictGet(loaded.zeroth, k, NoneVal)
                  ELSE /\ DictGet(out.zeroth, k, NoneVal) = call.changes[k]
                       /\ DictGet(out.exif, k, NoneVal) = DictGet(loaded.exif, k, NoneVal)
           ELSE /\ DictGet(out.zeroth, k, NoneVal) = DictGet(loaded.zeroth, k, NoneVal)
                /\ DictGet(out.exif, k, NoneVal) = DictGet(loaded.exif, k, NoneVal)

\* C11: when update_pdf_metadata has returned or raised, the temporary copy
\* of the upload it created does not exist.
C11_PdfTempRemoved ==
  call.fn = "update_pdf_metadata" => ~FsExists(disk, call.tmp_path)

\* C12: when extract_video_metadata or update_image_metadata has returned or
\* raised, the temporary copy of the upload it created does not exist.
C12_StagingTempRemoved ==
  call.fn \in {"extract_video_metadata", "update_image_metadata"}
    => ~FsExists(disk, call.tmp_path)

\* The files on disk that a successful image, DOCX or PPTX apply produced:
\* the temporary copies those applies stage are removed before the script
\* ends, and a failed apply removes its output.
SessionArtifacts ==
  {p \in DOMAIN disk : disk[p].valid /\ disk[p].fmt \in {"image", "docx", "pptx"}}

\* C13: between the executions of the script, the only modified artifact on
\* disk is the one modified_path refers to.
C13_OneArtifact ==
  ~pending_rerun => SessionArtifacts \subseteq {modified_path}

\* C14: the result of extract_video_metadata has as many groups as the probe
\* reports tracks, and the non-empty fields of every track are one of them.
C14_GroupPerTrack ==
  (call.fn = "extract_video_metadata" /\ call.fault = "none") =>
    LET tracks == ProbeTracks(call.uploaded_file.content) IN
    /\ Cardinality(DOMAIN call.metadata) = Len(tracks)
    /\ \A i \in 1..Len(tracks) :
         \E g \in DOMAIN call.metadata : call.metadata[g] = TrackInfo(tracks[i])

\* C15: for an image with a complete GPS sub-group, normalization yields the
\* GPS group in readable form whatever other tags there are; and the group
\* of format, mode and size is the result exactly for an image without tag
\* data.
C15_GpsAndFallback ==
  ( /\ call.fn = "extract_image_metadata"
    /\ call.content.fmt = "image"
    /\ call.content.valid )
  => /\ GpsKeys \subseteq DOMAIN call.content.gps =>
          /\ ~call.raised
          /\ call.result.value.GPSInfo =
               [none |-> FALSE,
                GPSLatitude |-> <<call.content.gps["GPSLatitude"][1], "deg",
                                  call.content.gps["GPSLatitude"][2], "'",
                                  call.content.gps["GPSLatitude"][3], "''",
                                  call.content.gps["GPSLatitudeRef"]>>,
                GPSLongitude |-> <<call.content.gps["GPSLongitude"][1], "deg",
                                   call.content.gps["GPSLongitude"][2], "'",
                                   call.content.gps["GPSLongitude"][3], "''",
                                   call.content.gps["GPSLongitudeRef"]>>,
                GPSTimeStamp |-> <<call.content.gps["GPSTimeStamp"][1], ":",
                                   call.content.gps["GPSTimeStamp"][2], ":",
                                   call.content.gps["GPSTimeStamp"][3], " UTC">>]
     /\ ~call.raised =>
          ( "Format" \in DOMAIN call.result.value.BasicInfo
            <=> DOMAIN call.content.zeroth \cup DOMAIN call.content.exif
                  \cup DOMAIN call.content.gps = {} )

====
